---- MODULE Spec2Model ----
(***************************************************************************)
(* cc-personality (src/cli.mjs): scanSessions reconstructs sessions from   *)
(* the first and last timestamp of every transcript file, computeStats     *)
(* aggregates them into a statistics snapshot, getArchetype classifies the *)
(* snapshot against the ordered ARCHETYPES table, and main drives the      *)
(* three and prints the result.                                            *)
(*                                                                         *)
(* Instants are JavaScript Date values: whole milliseconds, counted here    *)
(* from a local midnight that begins a Sunday.  Local hour, weekday and    *)
(* calendar day of an instant are read off the host's wall clock, which    *)
(* either keeps a constant UTC offset or is set one hour forward or back   *)
(* at 02:00 of that Sunday (a daylight-saving transition).                 *)
(*                                                                         *)
(* Numbers that the code keeps as floating-point fractions are kept as     *)
(* exact rationals [num, den] with den > 0.  A duration in hours is kept   *)
(* as the rational number of milliseconds it stands for (hours * 3600000), *)
(* and the hour thresholds of the code are scaled the same way.            *)
(***************************************************************************)
EXTENDS Integers, Sequences, FiniteSets, TLC

\* ---------------------------------------------------------------- bounds

\* Files the scan reads in one run.
MaxFiles == 2

\* Entries of ~/.claude/projects.
MaxProjects == 1

\* ------------------------------------------------------------- constants

\* (endTime - start) / 3600000
MsPerHour == 3600000

\* (lastDate - firstDate) / 86400000
MsPerDay == 86400000

\* const SESSION_GAP_HOURS = 0.5, in milliseconds
SESSION_GAP_MS == 1800000

\* Math.max(durationHours, 0.01): 0.01 hours, in milliseconds
MinSessionMs == 36000

\* Math.ceil(durationHours / 2): 2 hours, in milliseconds
SubSessionMs == 7200000

\* ----------------------------------------------------------------- state

VARIABLES
  pc,            \* where main is
  zone,          \* the host's time zone rule
  nDirs,         \* entries of the projects directory
  filesRead,     \* iterations of the file loop so far
  lastFile,      \* the file of the latest iteration
  emitted,       \* sessions the latest iteration pushed
  sessions,      \* scanSessions' sessions array
  projectCount,  \* main's projectCount
  stats,         \* main's stats
  archetype,     \* main's archetype
  ARCHETYPES,    \* the module-level table
  exitCode,      \* -1 while running, then the exit code of the process
  output         \* what main has printed: nothing, the message, the report

vars ==
  << pc, zone, nDirs, filesRead, lastFile, emitted, sessions, projectCount, stats,
     archetype, ARCHETYPES, exitCode, output >>

\* ------------------------------------------------------------- rationals

RECURSIVE GCD(_, _)
GCD(a, b) == IF b = 0 THEN a ELSE GCD(b, a % b)

Abs(n) == IF n < 0 THEN -n ELSE n

Max(a, b) == IF a >= b THEN a ELSE b

\* Math.ceil(a / b) for b > 0 (\div rounds down, also below zero)
CeilDiv(a, b) == -((-a) \div b)

\* The rational n / d, d > 0, in lowest terms.
Rat(n, d) ==
  LET g == GCD(Abs(n), d)
  IN [num |-> n \div g, den |-> d \div g]

RatAdd(a, b) ==
  LET g == GCD(a.den, b.den)
      l == (a.den \div g) * b.den
  IN Rat(a.num * (l \div a.den) + b.num * (l \div b.den), l)

\* a >= b for rationals of small terms (counts of sessions, of days)
RatGeq(a, b) == a.num * b.den >= b.num * a.den

\* r >= k and r > k for an integer k: decided on the integer part, so that
\* millisecond totals are never multiplied
RatGeqInt(r, k) == r.num \div r.den >= k

RatGtInt(r, k) ==
  \/ r.num \div r.den > k
  \/ r.num \div r.den = k /\ r.num % r.den # 0

\* ------------------------------------------------- transcript files, lines

\* The outcome of parseTimestamp: null, an Invalid Date (a Date whose time
\* value is NaN, a truthy object), or a Date of t milliseconds.
NullDate == [kind |-> "null", t |-> 0]

InvalidDate == [kind |-> "invalid", t |-> 0]

DateOf(t) == [kind |-> "date", t |-> t]

\* A line of a transcript: whether JSON.parse accepts it, and what its
\* timestamp (or ts) field holds: nothing or a falsy value ("none"), a value
\* new Date cannot read ("bad"), or a readable instant t ("ok").
Line(json, ts, t) == [json |-> json, ts |-> ts, t |-> t]

GarbageLine == Line(FALSE, "none", 0)

NoTsLine == Line(TRUE, "none", 0)

BadTsLine == Line(TRUE, "bad", 0)

TsLine(t) == Line(TRUE, "ok", t)

\* Fault: a line without a timestamp falls back to the epoch instead of null.
parseTimestampEpochFallback(jsonLine) ==
  IF ~jsonLine.json THEN DateOf(0)
  ELSE IF jsonLine.ts = "none" THEN DateOf(0)
  ELSE IF jsonLine.ts = "bad" THEN InvalidDate
  ELSE DateOf(jsonLine.t)

parseTimestamp(jsonLine) ==
  IF ~jsonLine.json THEN NullDate                 \* JSON.parse throws: catch {}
  ELSE IF jsonLine.ts = "none" THEN NullDate      \* if (ts) fails
  ELSE IF jsonLine.ts = "bad" THEN InvalidDate    \* new Date(ts) is Invalid Date
  ELSE DateOf(jsonLine.t)

\* What readFirstLastLine (and stat) meet for one .jsonl file: the file
\* cannot be opened ("unreadable": the call throws), it holds no byte
\* ("empty": the call returns null), or it yields its first and last line.
File(state, firstLine, lastLine) ==
  [state |-> state, firstLine |-> firstLine, lastLine |-> lastLine]

\* ------------------------------------------------- session reconstruction

Session(start, end, hours) == [start |-> start, end |-> end, hours |-> hours]

\* endTime - start: NaN as soon as one of the two is an Invalid Date
DurationMs(start, endTime) ==
  IF start.kind = "invalid" \/ endTime.kind = "invalid"
  THEN [nan |-> TRUE, ms |-> 0]
  ELSE [nan |-> FALSE, ms |-> endTime.t - start.t]

\* Fault: Math.floor in place of Math.ceil.
NumSubsFloor(d) ==
  IF d.nan THEN 0 ELSE Max(1, d.ms \div SubSessionMs)

\* Math.max(1, Math.ceil(durationHours / 2)); NaN when durationHours is NaN,
\* and then the loop test i < numSubs fails at once: 0 stands for it.
NumSubs(d) ==
  IF d.nan THEN 0 ELSE Max(1, CeilDiv(d.ms, SubSessionMs))

\* Fault: the sub-sessions are placed from index 1 instead of 0.
SubStartFromOne(start, d, i, numSubs) == start.t + ((i + 1) * d.ms) \div numSubs

\* new Date(start.getTime() + (i / numSubs) * (endTime - start)): the Date
\* constructor drops the fraction of a millisecond
SubStart(start, d, i, numSubs) == start.t + (i * d.ms) \div numSubs

\* Fault: the 0.01 hour floor is left out.
ShortHoursNoFloor(d) == Rat(d.ms, 1)

\* hours: Math.max(durationHours, 0.01)
ShortHours(d) == Rat(Max(d.ms, MinSessionMs), 1)

\* The sessions one iteration of the file loop of scanSessions pushes.
SessionsOf(file) ==
  IF file.state = "unreadable" THEN << >>                 \* catch { continue }
  ELSE IF file.state = "empty" THEN << >>                 \* if (!lines) continue
  ELSE
    LET start == parseTimestamp(file.firstLine)
        end == parseTimestamp(file.lastLine)
    IN IF start.kind = "null" THEN << >>                  \* if (!start) continue
       ELSE
         LET endTime == IF end.kind = "null" THEN start ELSE end
             d == DurationMs(start, endTime)
         IN IF ~d.nan /\ d.ms < SESSION_GAP_MS * 2
            THEN << Session(start.t, endTime.t, ShortHours(d)) >>
            ELSE
              LET numSubs == NumSubs(d)
              IN IF numSubs = 0 THEN << >>
                 ELSE [k \in 1..numSubs |->
                         LET subStart == SubStart(start, d, k - 1, numSubs)
                         IN Session(subStart, subStart, Rat(d.ms, numSubs))]

\* ------------------------------------------------------------ statistics

\* The instant at which the wall clock of a "forward" or "back" zone is set
\* one hour forward or back.
ZoneShiftAt == 2 * MsPerHour

\* The wall clock's reading at the instant t, in milliseconds.
LocalTime(t) ==
  IF zone = "forward" /\ t >= ZoneShiftAt THEN t + MsPerHour
  ELSE IF zone = "back" /\ t >= ZoneShiftAt THEN t - MsPerHour
  ELSE t

\* Date.prototype.getHours, getDay (0 = Sunday) and toDateString (the local
\* calendar day, here its index) of the instant t
getHours(t) == (LocalTime(t) % MsPerDay) \div MsPerHour

getDay(t) == (LocalTime(t) \div MsPerDay) % 7

toDateString(t) == LocalTime(t) \div MsPerDay

\* new Date(dateString).getTime(): the instant of the local midnight that
\* begins the day
MidnightOf(day) ==
  IF zone = "forward" /\ day * MsPerDay > ZoneShiftAt THEN day * MsPerDay - MsPerHour
  ELSE IF zone = "back" /\ day * MsPerDay > ZoneShiftAt THEN day * MsPerDay + MsPerHour
  ELSE day * MsPerDay

\* array.slice(from, to).reduce((a, b) => a + b, 0) over a 0-based array
RECURSIVE SliceSum(_, _, _)
SliceSum(buckets, from, to) ==
  IF from >= to THEN 0 ELSE buckets[from] + SliceSum(buckets, from + 1, to)

\* sessions.reduce((s, x) => s + x.hours, 0)
RECURSIVE SumHours(_, _)
SumHours(list, n) ==
  IF n = 0 THEN Rat(0, 1) ELSE RatAdd(SumHours(list, n - 1), list[n].hours)

Min(S) == CHOOSE x \in S : \A y \in S : x <= y

\* [...daySet].map(d => new Date(d)).sort((a, b) => a - b)
RECURSIVE SortedDates(_)
SortedDates(daySet) ==
  IF daySet = {} THEN << >>
  ELSE LET m == Min(daySet)
       IN << MidnightOf(m) >> \o SortedDates(daySet \ {m})

\* The streak loop: [maxStreak, curStreak] after the dates up to index i.
RECURSIVE StreakAt(_, _)
StreakAt(allDates, i) ==
  IF i <= 1 THEN [maxStreak |-> 1, curStreak |-> 1]
  ELSE LET prev == StreakAt(allDates, i - 1)
           diff == allDates[i] - allDates[i - 1]
       IN IF diff = MsPerDay                  \* diff === 1, in days
          THEN [maxStreak |-> Max(prev.maxStreak, prev.curStreak + 1),
                curStreak |-> prev.curStreak + 1]
          ELSE [maxStreak |-> prev.maxStreak, curStreak |-> 1]

\* hourBuckets.indexOf(Math.max(...hourBuckets))
PeakHour(hourBuckets) ==
  Min({h \in 0..23 : \A g \in 0..23 : hourBuckets[g] <= hourBuckets[h]})

\* The sessions of the four bands of the day, out of the 24 hour buckets.
NightCount(hourBuckets) ==
  SliceSum(hourBuckets, 0, 5) + SliceSum(hourBuckets, 22, 24)

MorningCount(hourBuckets) == SliceSum(hourBuckets, 5, 9)

AfternoonCount(hourBuckets) == SliceSum(hourBuckets, 9, 17)

\* Fault: the evening band starts at 18.
EveningCountFrom18(hourBuckets) == SliceSum(hourBuckets, 18, 22)

EveningCount(hourBuckets) == SliceSum(hourBuckets, 17, 22)

\* Fault: the span leaves out the first day.
TotalDaysExclusive(firstDate, lastDate) == CeilDiv(lastDate - firstDate, MsPerDay)

\* Math.ceil((lastDate - firstDate) / 86400000) + 1
TotalDays(firstDate, lastDate) == CeilDiv(lastDate - firstDate, MsPerDay) + 1

\* computeStats returns null for no session
Null == [null |-> TRUE]

computeStats(list) ==
  IF Len(list) = 0 THEN Null
  ELSE
    LET totalSessions == Len(list)
        totalHours == SumHours(list, Len(list))
        hourBuckets ==
          [h \in 0..23 |->
             Cardinality({i \in 1..Len(list) : getHours(list[i].start) = h})]
        dayBuckets ==
          [w \in 0..6 |->
             Cardinality({i \in 1..Len(list) : getDay(list[i].start) = w})]
        weekdays == SliceSum(dayBuckets, 1, 6)
        weekends == dayBuckets[0] + dayBuckets[6]
        daySet == {toDateString(list[i].start) : i \in 1..Len(list)}
        allDates == SortedDates(daySet)
        firstDate == allDates[1]
        lastDate == allDates[Len(allDates)]
    IN [totalSessions |-> totalSessions,
        totalHours |-> totalHours,
        activeDays |-> Cardinality(daySet),
        totalDays |-> TotalDays(firstDate, lastDate),
        maxStreak |-> StreakAt(allDates, Len(allDates)).maxStreak,
        nightPct |-> [num |-> NightCount(hourBuckets), den |-> totalSessions],
        morningPct |-> [num |-> MorningCount(hourBuckets), den |-> totalSessions],
        afternoonPct |-> [num |-> AfternoonCount(hourBuckets), den |-> totalSessions],
        eveningPct |-> [num |-> EveningCount(hourBuckets), den |-> totalSessions],
        \* (weekends / 2) / (weekdays / 5), and 0 without weekday list
        weekendRatio |->
          IF weekdays > 0 THEN [num |-> weekends * 5, den |-> weekdays * 2]
          ELSE [num |-> 0, den |-> 1],
        avgSessionHours |-> Rat(totalHours.num, totalHours.den * totalSessions),
        hourBuckets |-> hourBuckets,
        dayBuckets |-> dayBuckets,
        projectCount |-> 0,                               \* filled later
        peakHour |-> PeakHour(hourBuckets)]

\* ------------------------------------------------------------ archetypes

\* An archetype, as far as the classification goes: its id and its
\* description, which is a fixed text or embeds a streak length.
StaticText == [dynamic |-> FALSE, streak |-> 0]

StreakText(n) == [dynamic |-> TRUE, streak |-> n]

Archetype(id, description) == [id |-> id, description |-> description]

\* Fault: the machine rule is declared first.
ArchetypeTableMachineFirst ==
  << Archetype("machine", StaticText),
     Archetype("night_beast", StaticText),
     Archetype("dawn_coder", StaticText),
     Archetype("weekend_warrior", StaticText),
     Archetype("burst_genius", StaticText),
     Archetype("disciplined", StaticText),
     Archetype("session_monster", StaticText),
     Archetype("micro_shipper", StaticText),
     Archetype("explorer", StaticText),
     Archetype("mono_focused", StaticText) >>

\* const ARCHETYPES, in declaration order
ArchetypeTable ==
  << Archetype("night_beast", StaticText),
     Archetype("dawn_coder", StaticText),
     Archetype("machine", StaticText),
     Archetype("weekend_warrior", StaticText),
     Archetype("burst_genius", StaticText),
     Archetype("disciplined", StaticText),
     Archetype("session_monster", StaticText),
     Archetype("micro_shipper", StaticText),
     Archetype("explorer", StaticText),
     Archetype("mono_focused", StaticText) >>

\* The condition closure of the archetype `id`, on the snapshot s.
condition(id, s) ==
  CASE id = "night_beast" -> RatGeq(s.nightPct, [num |-> 3, den |-> 10])
    [] id = "dawn_coder" -> RatGeq(s.morningPct, [num |-> 2, den |-> 5])
    [] id = "machine" -> s.maxStreak >= 30
    [] id = "weekend_warrior" -> RatGeq(s.weekendRatio, [num |-> 9, den |-> 5])
    [] id = "burst_genius" ->
         /\ s.activeDays > 0
         /\ RatGeq([num |-> s.totalDays, den |-> s.activeDays], [num |-> 5, den |-> 2])
    [] id = "disciplined" ->
         /\ s.activeDays > 0
         /\ ~RatGeq([num |-> s.totalDays, den |-> s.activeDays], [num |-> 13, den |-> 10])
         /\ ~RatGeqInt([num |-> s.totalHours.num, den |-> s.totalHours.den * s.activeDays],
                       6 * MsPerHour)
    [] id = "session_monster" -> RatGeqInt(s.avgSessionHours, (5 * MsPerHour) \div 2)
    [] id = "micro_shipper" ->
         RatGeq([num |-> s.totalSessions, den |-> s.activeDays], [num |-> 15, den |-> 1])
    [] id = "explorer" -> s.projectCount >= 20
    [] id = "mono_focused" -> s.projectCount <= 3 /\ s.totalSessions >= 100

\* for (const archetype of allArchetypes) if (archetype.condition(stats)) return
RECURSIVE FirstMatch(_, _, _)
FirstMatch(allArchetypes, snapshot, i) ==
  IF i > Len(allArchetypes) THEN Archetype("balanced", StaticText)
  ELSE IF condition(allArchetypes[i].id, snapshot) THEN allArchetypes[i]
  ELSE FirstMatch(allArchetypes, snapshot, i + 1)

\* ARCHETYPES.map(a => a.id === 'machine' ? machineArchetype : a), the
\* machine archetype's description carrying the snapshot's streak
AllArchetypes(snapshot, table) ==
  LET machineArchetype == Archetype("machine", StreakText(snapshot.maxStreak))
  IN [i \in 1..Len(table) |->
        IF table[i].id = "machine" THEN machineArchetype ELSE table[i]]

getArchetype(snapshot, table) ==
  FirstMatch(AllArchetypes(snapshot, table), snapshot, 1)

\* ---------------------------------------------------------------- inputs

Sun0200 == 2 * MsPerHour

Mon0900 == MsPerDay + 9 * MsPerHour

Wed0630 == 3 * MsPerDay + 6 * MsPerHour + SESSION_GAP_MS

Sat2200 == 6 * MsPerDay + 22 * MsPerHour

Starts == {Sun0200, Mon0900, Wed0630, Sat2200}

\* last timestamp minus first timestamp: the last before the first, equal,
\* under 0.01 h, just under 1 h, 1 h, and spans that split in 2, 3 and 5,
\* two of them not a multiple of their number of sub-sessions
Spans ==
  { -MsPerHour, 0, 1000, MsPerHour - 1, MsPerHour,
    2 * MsPerHour + 1, 5 * MsPerHour + 1, 10 * MsPerHour }

\* Every span from Monday 09:00, the shortest and the longest from the
\* other starts, and lines without a readable timestamp at either end.
Files ==
  {File("ok", TsLine(Mon0900), TsLine(Mon0900 + d)) : d \in Spans}
    \cup {File("ok", TsLine(t), TsLine(t + d)) : t \in Starts, d \in {0, 10 * MsPerHour}}
    \cup {File("ok", TsLine(Mon0900), l) : l \in {NoTsLine, BadTsLine}}
    \cup {File("ok", l, TsLine(Mon0900)) : l \in {GarbageLine, NoTsLine, BadTsLine}}
    \cup {File("empty", GarbageLine, GarbageLine),
          File("unreadable", GarbageLine, GarbageLine)}

\* before the first file is read
NoFile == File("none", GarbageLine, GarbageLine)

\* ------------------------------------------------------------------ main

Init ==
  /\ pc = "scan"
  /\ zone \in {"fixed", "forward", "back"}
  /\ nDirs \in 0..MaxProjects
  /\ filesRead = 0
  /\ lastFile = NoFile
  /\ emitted = 0
  /\ sessions = << >>
  /\ projectCount = 0
  /\ stats = Null
  /\ archetype = Null
  /\ ARCHETYPES = ArchetypeTable
  /\ exitCode = -1
  /\ output = "none"

\* One iteration of the file loop of scanSessions.
ScanFile ==
  /\ pc = "scan"
  /\ nDirs > 0
  /\ filesRead < MaxFiles
  /\ \E file \in Files :
       /\ lastFile' = file
       /\ emitted' = Len(SessionsOf(file))
       /\ sessions' = sessions \o SessionsOf(file)
  /\ filesRead' = filesRead + 1
  /\ UNCHANGED << pc, zone, nDirs, projectCount, stats, archetype, ARCHETYPES, exitCode, output >>

\* scanSessions returns (at once when the projects directory has no entry or
\* cannot be read).
ScanReturn ==
  /\ pc = "scan"
  /\ pc' = "scanned"
  /\ UNCHANGED << zone, nDirs, filesRead, lastFile, emitted, sessions, projectCount,
                  stats, archetype, ARCHETYPES, exitCode, output >>

\* Fault: the run without sessions ends with exit code 0.
NoDataExitZero ==
  /\ pc = "scanned"
  /\ Len(sessions) = 0
  /\ pc' = "nodata"
  /\ exitCode' = 0
  /\ output' = "No Claude Code sessions found."
  /\ UNCHANGED << zone, nDirs, filesRead, lastFile, emitted, sessions, projectCount,
                  stats, archetype, ARCHETYPES >>

\* main: no session, "No Claude Code sessions found.", process.exit(1)
NoData ==
  /\ pc = "scanned"
  /\ Len(sessions) = 0
  /\ pc' = "nodata"
  /\ exitCode' = 1
  /\ output' = "No Claude Code sessions found."
  /\ UNCHANGED << zone, nDirs, filesRead, lastFile, emitted, sessions, projectCount,
                  stats, archetype, ARCHETYPES >>

\* main: count projects
CountProjects ==
  /\ pc = "scanned"
  /\ Len(sessions) # 0
  /\ projectCount' = nDirs
  /\ pc' = "counted"
  /\ UNCHANGED << zone, nDirs, filesRead, lastFile, emitted, sessions, stats,
                  archetype, ARCHETYPES, exitCode, output >>

\* main: const stats = computeStats(sessions)
ComputeStats ==
  /\ pc = "counted"
  /\ stats' = computeStats(sessions)
  /\ pc' = "stats"
  /\ UNCHANGED << zone, nDirs, filesRead, lastFile, emitted, sessions, projectCount,
                  archetype, ARCHETYPES, exitCode, output >>

\* main: stats.projectCount = projectCount
FillProjectCount ==
  /\ pc = "stats"
  /\ stats' = [stats EXCEPT !.projectCount = projectCount]
  /\ pc' = "filled"
  /\ UNCHANGED << zone, nDirs, filesRead, lastFile, emitted, sessions, projectCount,
                  archetype, ARCHETYPES, exitCode, output >>

\* Fault: getArchetype stores its machine archetype into the table.
ClassifyInPlace ==
  /\ pc = "filled"
  /\ archetype' = getArchetype(stats, ARCHETYPES)
  /\ ARCHETYPES' = AllArchetypes(stats, ARCHETYPES)
  /\ pc' = "classified"
  /\ UNCHANGED << zone, nDirs, filesRead, lastFile, emitted, sessions, projectCount,
                  stats, exitCode, output >>

\* main: const archetype = getArchetype(stats)
Classify ==
  /\ pc = "filled"
  /\ archetype' = getArchetype(stats, ARCHETYPES)
  /\ pc' = "classified"
  /\ UNCHANGED << zone, nDirs, filesRead, lastFile, emitted, sessions, projectCount,
                  stats, ARCHETYPES, exitCode, output >>

\* main: the JSON output or the rendered report; the process ends with code 0
Render ==
  /\ pc = "classified"
  /\ pc' = "done"
  /\ exitCode' = 0
  /\ output' = "report"
  /\ UNCHANGED << zone, nDirs, filesRead, lastFile, emitted, sessions, projectCount,
                  stats, archetype, ARCHETYPES >>

Next ==
  \/ ScanFile
  \/ ScanReturn
  \/ NoData
  \/ CountProjects
  \/ ComputeStats
  \/ FillProjectCount
  \/ Classify
  \/ Render

Spec == Init /\ [][Next]_vars

\* ------------------------------------------- the classifier on its own

\* A snapshot as computeStats and main hand it to getArchetype, built from
\* the counts it summarises: t sessions, of which night, morning and weekend
\* many fall in those bands, over active days within days calendar days
\* with a longest streak, avgMs milliseconds long on average.
Snapshot(t, night, morning, weekend, active, days, streak, avgMs, projects) ==
  [totalSessions |-> t,
   totalHours |-> Rat(t * avgMs, 1),
   activeDays |-> active,
   totalDays |-> days,
   maxStreak |-> streak,
   nightPct |-> [num |-> night, den |-> t],
   morningPct |-> [num |-> morning, den |-> t],
   afternoonPct |-> [num |-> t - night - morning, den |-> t],
   eveningPct |-> [num |-> 0, den |-> t],
   weekendRatio |->
     IF t - weekend > 0 THEN [num |-> weekend * 5, den |-> (t - weekend) * 2]
     ELSE [num |-> 0, den |-> 1],
   avgSessionHours |-> Rat(t * avgMs, t),
   hourBuckets |-> [h \in 0..23 |-> 0],
   dayBuckets |-> [w \in 0..6 |-> 0],
   projectCount |-> projects,
   peakHour |-> 0]

\* The least count out of t that reaches the fraction n / d, less `below`
\* (and no less than 0): 0 is on the threshold, 1 just under it, 100 none.
CountAt(t, n, d, below) == Max(0, CeilDiv(n * t, d) - below)

\* Values on both sides of every threshold of the table (and on it).
Snapshots ==
  { Snapshot(t, CountAt(t, 3, 10, night), CountAt(t, 2, 5, morning),
             CountAt(t, 18, 43, weekend), ad[1], ad[2], streak, avgMs, projects) :
      t \in {30, 86, 99, 100},
      night \in {0, 1, 100},
      morning \in {0, 1, 100},
      weekend \in {0, 1},
      ad \in {<<2, 2>>, <<2, 5>>, <<30, 30>>, <<30, 38>>, <<30, 39>>, <<30, 74>>, <<30, 75>>},
      streak \in {1, 29, 30},
      avgMs \in {SESSION_GAP_MS, (5 * MsPerHour) \div 2 - 1, (5 * MsPerHour) \div 2},
      projects \in {3, 4, 19, 20} }

InitClassify ==
  /\ stats \in {s \in Snapshots :
                  /\ s.nightPct.num + s.morningPct.num <= s.totalSessions
                  /\ s.maxStreak <= s.activeDays
                  /\ s.activeDays <= s.totalSessions}
  /\ pc = "filled"
  /\ zone = "fixed"
  /\ nDirs = stats.projectCount
  /\ filesRead = 0
  /\ lastFile = NoFile
  /\ emitted = 0
  /\ sessions = << >>
  /\ projectCount = stats.projectCount
  /\ archetype = Null
  /\ ARCHETYPES = ArchetypeTable
  /\ exitCode = -1
  /\ output = "none"

NextClassify ==
  \/ Classify
  \/ Render

SpecClassify == InitClassify /\ [][NextClassify]_vars

\* ---------------------------------------------------------------- claims

\* main holds a snapshot / an archetype
HasStats == pc \in {"stats", "filled", "classified", "done"}

Classified == pc \in {"classified", "done"}

\* The latest iteration of the file loop read both lines of a file.
ReadLines == lastFile.state = "ok"

HasInstant(line) == line.json /\ line.ts = "ok"

NoTimestamp(line) == ~line.json \/ line.ts = "none"

\* last timestamp minus first timestamp of the latest file, an absent last
\* timestamp counting as the first
LastSpan ==
  IF NoTimestamp(lastFile.lastLine) THEN 0
  ELSE lastFile.lastLine.t - lastFile.firstLine.t

LongSpan ==
  /\ ReadLines
  /\ HasInstant(lastFile.firstLine)
  /\ HasInstant(lastFile.lastLine)
  /\ LastSpan >= MsPerHour

ShortSpan ==
  /\ ReadLines
  /\ HasInstant(lastFile.firstLine)
  /\ HasInstant(lastFile.lastLine) \/ NoTimestamp(lastFile.lastLine)
  /\ LastSpan < MsPerHour

\* The i-th session (from 0) the latest iteration pushed.
Pushed(i) == sessions[Len(sessions) - emitted + i + 1]

PushedSeq == SubSeq(sessions, Len(sessions) - emitted + 1, Len(sessions))

RuleOrder ==
  << "night_beast", "dawn_coder", "machine", "weekend_warrior", "burst_genius",
     "disciplined", "session_monster", "micro_shipper", "explorer", "mono_focused" >>

\* C1: getArchetype returns the earliest rule, in the order night_beast,
\* dawn_coder, machine, weekend_warrior, burst_genius, disciplined,
\* session_monster, micro_shipper, explorer, mono_focused, whose predicate
\* holds on the snapshot, 'balanced' exactly when none holds, and night_beast
\* whenever the predicates of night_beast and machine both hold.
C1_FirstMatchWins ==
  Classified =>
    LET hits == {k \in 1..Len(RuleOrder) : condition(RuleOrder[k], stats)}
    IN /\ archetype.id = "balanced" <=> hits = {}
       /\ hits # {} => archetype.id = RuleOrder[Min(hits)]
       /\ condition("night_beast", stats) /\ condition("machine", stats)
            => archetype.id = "night_beast"

C1_Witness ==
  /\ Classified
  /\ condition("night_beast", stats)
  /\ condition("machine", stats)
  /\ archetype.id = "night_beast"

\* C2 as claimed: an observation spanning at least 1 hour yields
\* ceil(durationHours / 2) sub-sessions whose durations add up to
\* durationHours, the i-th starting at exactly
\* start + (i / numSubs) * (end - start) and ending where it starts.
C2_SplitExactStarts ==
  LongSpan =>
    LET n == CeilDiv(LastSpan, 2 * MsPerHour)
    IN /\ emitted = n
       /\ SumHours(PushedSeq, emitted) = Rat(LastSpan, 1)
       /\ \A i \in 0..(emitted - 1) :
            /\ n * (Pushed(i).start - lastFile.firstLine.t) = i * LastSpan
            /\ Pushed(i).end = Pushed(i).start

\* C2 as amended: the same, the i-th sub-session starting at
\* start + (i / numSubs) * (end - start) cut down to a whole millisecond.
C2_SplitTruncatedStarts ==
  LongSpan =>
    LET n == CeilDiv(LastSpan, 2 * MsPerHour)
    IN /\ emitted = n
       /\ SumHours(PushedSeq, emitted) = Rat(LastSpan, 1)
       /\ \A i \in 0..(emitted - 1) :
            LET offset == Pushed(i).start - lastFile.firstLine.t
            IN /\ n * offset <= i * LastSpan
               /\ i * LastSpan < n * (offset + 1)
               /\ Pushed(i).end = Pushed(i).start

C2_Witness ==
  /\ LongSpan
  /\ emitted = 3
  /\ LastSpan % 3 # 0
  /\ Pushed(1).start > lastFile.firstLine.t

\* C3: an observation with a first timestamp and a span under 1 hour (the
\* last timestamp absent, or before the first, included) yields exactly one
\* session, starting at the first timestamp, of max(durationHours, 0.01)
\* hours, which is at least 0.01 hours.
C3_ShortSpanOneSession ==
  ShortSpan =>
    /\ emitted = 1
    /\ Pushed(0).start = lastFile.firstLine.t
    /\ Pushed(0).hours.den = 1
    /\ Pushed(0).hours.num = (IF LastSpan > MsPerHour \div 100 THEN LastSpan
                              ELSE MsPerHour \div 100)
    /\ RatGeqInt(Pushed(0).hours, MsPerHour \div 100)

C3_Witness ==
  /\ ShortSpan
  /\ LastSpan < 0
  /\ emitted = 1
  /\ Pushed(0).hours = Rat(MsPerHour \div 100, 1)

\* C4 as claimed: The Midnight Beast is returned only when at least 30% of
\* all sessions start between midnight and 5 AM (local start hour in 0..4).
C4_MidnightBeastOnlyMidnightToFive ==
  Classified /\ archetype.id = "night_beast" =>
    10 * Cardinality({i \in 1..Len(sessions) : getHours(sessions[i].start) \in 0..4})
      >= 3 * Len(sessions)

\* The sessions whose local start hour is one of `hours`.
InBand(hours) ==
  Cardinality({i \in 1..Len(sessions) : getHours(sessions[i].start) \in hours})

\* C5: the four band fractions of a snapshot add up to 1, each lies in
\* [0, 1], and every session is counted in exactly one band by its start
\* hour: night 0-4 and 22-23, morning 5-8, afternoon 9-16, evening 17-21.
C5_BandsPartition ==
  HasStats =>
    /\ \A f \in {stats.nightPct, stats.morningPct, stats.afternoonPct, stats.eveningPct} :
         f.den = Len(sessions) /\ 0 <= f.num /\ f.num <= f.den
    /\ stats.nightPct.num + stats.morningPct.num + stats.afternoonPct.num
         + stats.eveningPct.num = Len(sessions)
    /\ stats.nightPct.num = InBand((0..4) \cup (22..23))
    /\ stats.morningPct.num = InBand(5..8)
    /\ stats.afternoonPct.num = InBand(9..16)
    /\ stats.eveningPct.num = InBand(17..21)

C5_Witness ==
  /\ HasStats
  /\ stats.nightPct.num > 0
  /\ stats.morningPct.num > 0
  /\ stats.afternoonPct.num > 0
  /\ stats.eveningPct.num > 0

\* The active calendar days, the instants of their local midnights, and the
\* lengths of the runs of active days that follow each other at 86,400,000 ms
\* (Runs) and by the calendar (CalendarRuns).
ActiveDates == {toDateString(sessions[i].start) : i \in 1..Len(sessions)}

ActiveMidnights == {MidnightOf(day) : day \in ActiveDates}

Runs == {r \in 1..Cardinality(ActiveDates) :
           \E a \in ActiveMidnights :
             \A k \in 0..(r - 1) : a + k * MsPerDay \in ActiveMidnights}

CalendarRuns == {r \in 1..Cardinality(ActiveDates) :
                   \E a \in ActiveDates : \A k \in 0..(r - 1) : a + k \in ActiveDates}

C7_NoDataOutcome ==
  /\ pc = "nodata" =>
       /\ Len(sessions) = 0
       /\ exitCode = 1
       /\ output = "No Claude Code sessions found."
  /\ pc # "scan" /\ Len(sessions) = 0 =>
       /\ pc \in {"scanned", "nodata"}
       /\ archetype = Null
       /\ stats = Null
       /\ exitCode # 0
       /\ output # "report"
  /\ Len(sessions) = 0 => computeStats(sessions) = Null
  /\ HasStats => stats # Null

C7_Witness ==
  /\ pc = "nodata"
  /\ filesRead = MaxFiles
  /\ exitCode = 1
  /\ archetype = Null

\* The file was read, and its first line has no readable timestamp.
BadFirst(file) == file.state = "ok" /\ ~HasInstant(file.firstLine)

\* C8: a file whose first timestamp is missing or unparseable contributes
\* no session and raises no error: the scan goes on, and the sessions pushed
\* before are left as they were.
C8_BadFirstTimestampSkipped ==
  [][filesRead' = filesRead + 1 /\ BadFirst(lastFile') =>
       /\ sessions' = sessions
       /\ emitted' = 0
       /\ pc' = "scan"
       /\ exitCode' = -1
       /\ output' = "none"]_vars

C8_Witness ==
  /\ lastFile.state = "ok"
  /\ lastFile.firstLine = BadTsLine
  /\ emitted = 0
  /\ Len(sessions) > 0

\* C9 as claimed: once computeStats has returned the snapshot, no later step
\* changes any field of it, and getArchetype changes neither the snapshot
\* nor the ARCHETYPES table.
C9_SnapshotNeverChanges ==
  [][HasStats => stats' = stats /\ ARCHETYPES' = ARCHETYPES]_vars

\* C9 as amended: once computeStats has returned the snapshot, main sets its
\* projectCount field once, before it calls getArchetype; no other field is
\* changed by any later step, and getArchetype changes neither the snapshot
\* nor the ARCHETYPES table.
C9_OnlyProjectCountFilled ==
  [][HasStats =>
       /\ [stats' EXCEPT !.projectCount = 0] = [stats EXCEPT !.projectCount = 0]
       /\ stats'.projectCount # stats.projectCount =>
            pc = "stats" /\ pc' = "filled" /\ stats'.projectCount = projectCount
       /\ pc # "stats" => stats' = stats
       /\ ARCHETYPES' = ARCHETYPES]_vars

C9_Witness ==
  /\ Classified
  /\ projectCount > 0
  /\ stats.projectCount = projectCount
  /\ ARCHETYPES = ArchetypeTable

\* C10: every reconstructed session lasts at most 2 hours, so the average
\* session length is at most 2 hours and session_monster is never the
\* archetype the scan, computeStats and getArchetype arrive at.
C10_NoSessionMonster ==
  /\ \A i \in 1..Len(sessions) : ~RatGtInt(sessions[i].hours, 2 * MsPerHour)
  /\ HasStats => ~RatGtInt(stats.avgSessionHours, 2 * MsPerHour)
  /\ Classified => archetype.id # "session_monster"

C10_Witness ==
  /\ Classified
  /\ stats.avgSessionHours = Rat(2 * MsPerHour, 1)
  /\ ~condition("disciplined", stats)
  /\ archetype.id = "balanced"

====
